---- MODULE Spec2Model ----
(***************************************************************************)
(* Model of circuit_watch.py: a count-based sliding-window circuit         *)
(* breaker.  The breaker object (CircuitBreaker + its CircuitStorage) is   *)
(* the record cb; each state handler method is an operator from a breaker  *)
(* record to a breaker record, written statement by statement; the actions *)
(* are the steps of the decorator's wrapper (before-call, work returns,    *)
(* work raises) plus the passing of wall-clock time.                       *)
(***************************************************************************)
EXTENDS Integers, Sequences, FiniteSets, TLC

\* ---------------------------------------------------------------- bounds
MaxWindow == 2      \* count_based_window_size ranges over 1..MaxWindow
MaxDen == 2         \* failure_rate ranges over the fractions n/d, d <= MaxDen
MaxTrials == 2      \* half_open_state_calls_threshold ranges over 1..MaxTrials
MaxCooldown == 2    \* open_state_duration ranges over 1..MaxCooldown (seconds)
MaxSlow == 1        \* slow_call_duration ranges over None and 0..MaxSlow
MaxSeconds == 4     \* one-second ticks stop at this second of the day
MaxDays == 1        \* whole-day jumps stop after this many days
NumCallers == 2     \* threads calling the decorated function (SpecConc)
ScenarioIterations == 14  \* iterations of the driver loop (SpecScenario)
ScenarioMaxTime == 24     \* the driver stops sleeping at this time (SpecScenario)

\* ------------------------------------------------------ program constants
CLOSED_STATE == "CLOSED_STATE"
OPEN_STATE == "OPEN_STATE"
HALF_OPEN_STATE == "HALF_OPEN_STATE"
CircuitState == {OPEN_STATE, CLOSED_STATE, HALF_OPEN_STATE}

\* Python's None for last_failure_time, slow_call_duration and start_time
\* (times and durations are naturals, so -1 is free).
None == -1

\* datetime.timedelta keeps (days, seconds, microseconds); .seconds is the
\* seconds field alone, 0 <= seconds < 86400.
SecondsPerDay == 86400

Callers == 1 .. NumCallers

RECURSIVE GCD(_, _)
GCD(a, b) == IF b = 0 THEN a ELSE GCD(b, a % b)

\* The failure rates the configuration is drawn from: fractions in (0, 1],
\* <<n, d>> standing for the float n / d.
Rates == {r \in (1 .. MaxDen) \X (1 .. MaxDen) : r[1] <= r[2] /\ GCD(r[1], r[2]) = 1}

VARIABLES
    cb,                   \* the CircuitBreaker with its CircuitStorage
    now,                  \* the wall clock (datetime.utcnow(), time.time()), in seconds
    calls,                \* per caller: where its wrapper invocation stands
    half_open_successes,  \* successes dispatched to the half-open handler since HALF_OPEN was entered
    recorded_since_closed,\* CallDetails appended since the breaker was constructed or re-closed (capped)
    i                     \* loop index of the driver (scenario only)

vars == <<cb, now, calls, half_open_successes, recorded_since_closed, i>>

\* --------------------------------------------------------------- CallDetail
\* The timestamp of a CallDetail is never read by the breaker; the record
\* keeps the status.  The breaker's field call_details_created counts the
\* CallDetail objects constructed during the current wrapper step.
CallDetail(status) == [status |-> status]

\* -------------------------------------------------------------- CBConstants
DEFAULT_COUNT_BASED_WINDOW_SIZE == 2
DEFAULT_FAILURE_RATE == <<1, 1>>
DEFAULT_OPEN_STATE_DURATION == 10
DEFAULT_HALF_OPEN_STATE_CALLS == 1

\* Python's "x or default" on a number: None and 0 are falsy
OrDefault(x, default) == IF x = None \/ x = 0 THEN default ELSE x

\* the same on a failure rate <<n, d>>; <<0, 1>> stands for None and for 0.0
OrDefaultRate(rate, default) == IF rate[1] = 0 THEN default ELSE rate

\* ---------------------------------------------------------------- listeners
\* The objects a caller may register.  CircuitBreakerListener is the class of
\* lines 256-267: it declares success, on_failure, before_call, state_change.
\* FailureListener stands for a listener written against the calls the breaker
\* makes: it has the methods success, failure and state_change.
CircuitBreakerListener == "CircuitBreakerListener"
FailureListener == "FailureListener"

\* hasattr(listener, "failure")
has_failure(listener) == listener = FailureListener

\* ----------------------------------------------------------- CircuitBreaker
\* Beside the fields of the object, the record keeps what the current wrapper
\* step has done so far: call_details_created, the listener calls made
\* (events, each with the breaker fields the listener finds) and the
\* exception a listener call raised (raised, "none" if none).
NewCircuitBreaker(window_size, rate, slow, trials, cooldown, listeners) ==
    [ count_based_window_size |-> OrDefault(window_size, DEFAULT_COUNT_BASED_WINDOW_SIZE),
      failure_rate |-> OrDefaultRate(rate, DEFAULT_FAILURE_RATE),
      slow_call_duration |-> slow,
      open_state_duration |-> OrDefault(cooldown, DEFAULT_OPEN_STATE_DURATION),
      half_open_state_calls_threshold |-> OrDefault(trials, DEFAULT_HALF_OPEN_STATE_CALLS),
      total_calls |-> <<>>,
      half_open_state_total_calls |-> 0,
      circuit_state |-> CLOSED_STATE,
      last_failure_time |-> None,
      listeners |-> listeners,
      call_details_created |-> 0,
      events |-> <<>>,
      raised |-> "none" ]

\* faulty variant: the window is left as it is
reset_calls_keeping(b) == b

reset_calls(b) == [b EXCEPT !.total_calls = <<>>]

\* the fields of the breaker a listener finds when it is called
Seen(b) ==
    [ circuit_state |-> b.circuit_state, total_calls |-> b.total_calls,
      last_failure_time |-> b.last_failure_time,
      half_open_state_total_calls |-> b.half_open_state_total_calls ]

\* for listener in self.listeners: listener.state_change(self, prev_state, state)
RECURSIVE notify_state_change(_, _, _, _)
notify_state_change(b, k, prev_state, state) ==
    IF k > Len(b.listeners) THEN b
    ELSE notify_state_change(
             [b EXCEPT !.events = Append(@,
                 [ kind |-> "state_change", listener |-> k,
                   prev_state |-> prev_state, curr_state |-> state, seen |-> Seen(b) ])],
             k + 1, prev_state, state)

set_circuit_breaker_state(b, state) ==
    LET prev_state == b.circuit_state
    IN  notify_state_change([b EXCEPT !.circuit_state = state], 1, prev_state, state)

update_last_failure_time(b, t) == [b EXCEPT !.last_failure_time = t]

RECURSIVE fail_counter(_)
fail_counter(total_calls) ==
    IF total_calls = <<>> THEN 0
    ELSE (IF Head(total_calls).status THEN 0 ELSE 1) + fail_counter(Tail(total_calls))

\* faulty variant: the rate is evaluated on a window of any length
check_if_max_fails_reached_any_length(b) ==
    LET total_calls == Len(b.total_calls)
    IN  fail_counter(b.total_calls) * b.failure_rate[2] >= b.failure_rate[1] * total_calls

\* fail_counter / total_calls >= failure_rate, with failure_rate = n / d
check_if_max_fails_reached(b) ==
    LET total_calls == Len(b.total_calls)
        max_fails_reached == total_calls >= b.count_based_window_size
    IN  IF max_fails_reached
        THEN fail_counter(b.total_calls) * b.failure_rate[2] >= b.failure_rate[1] * total_calls
        ELSE FALSE

\* (a - b).seconds for two datetimes a, b given in whole seconds
timedelta_seconds(delta) == delta % SecondsPerDay

check_if_open_state_duration_elapsed(b, t) ==
    timedelta_seconds(t - b.last_failure_time) >= b.open_state_duration

\* faulty variant: the eviction takes the newest record (pop) instead of the oldest
RECURSIVE pop_while_over(_, _)
pop_while_over(total_calls, size) ==
    IF Len(total_calls) > size
    THEN pop_while_over(SubSeq(total_calls, 1, Len(total_calls) - 1), size)
    ELSE total_calls

RECURSIVE popleft_while_over(_, _)
popleft_while_over(total_calls, size) ==
    IF Len(total_calls) > size THEN popleft_while_over(Tail(total_calls), size)
    ELSE total_calls

update_total_calls_details(b) ==
    [b EXCEPT !.total_calls = popleft_while_over(@, b.count_based_window_size)]

add_call_detail(b, status) ==
    update_total_calls_details(
        [b EXCEPT !.total_calls = Append(@, CallDetail(status)),
                  !.call_details_created = @ + 1])

\* faulty variant: a duration equal to the threshold is not a breach
check_if_execution_time_breached_strict(b, start_time, end_time) ==
    /\ b.slow_call_duration # None
    /\ (end_time - start_time) > b.slow_call_duration

\* TRUE when CircuitExecutionTimeBreachedException is raised
check_if_execution_time_breached(b, start_time, end_time) ==
    /\ b.slow_call_duration # None
    /\ (end_time - start_time) >= b.slow_call_duration

increment_half_open_state_success_calls(b) ==
    [b EXCEPT !.half_open_state_total_calls = @ + 1]

reset_half_open_state_calls_counter(b) ==
    [b EXCEPT !.half_open_state_total_calls = 0]

check_half_open_call_success(b) ==
    b.half_open_state_total_calls >= b.half_open_state_calls_threshold

\* ------------------------------------------------------------ state handlers
\* for listener in self.circuit_breaker.listeners: listener.success(cb)
RECURSIVE notify_success(_, _)
notify_success(b, k) ==
    IF k > Len(b.listeners) THEN b
    ELSE notify_success(
             [b EXCEPT !.events = Append(@,
                 [ kind |-> "success", listener |-> k, seen |-> Seen(b) ])],
             k + 1)

\* for listener in self.circuit_breaker.listeners: listener.failure(cb, exc);
\* the attribute lookup raises AttributeError on a listener without failure
RECURSIVE notify_failure(_, _, _)
notify_failure(b, k, exc) ==
    IF k > Len(b.listeners) THEN b
    ELSE IF ~has_failure(b.listeners[k]) THEN [b EXCEPT !.raised = "AttributeError"]
    ELSE notify_failure(
             [b EXCEPT !.events = Append(@,
                 [ kind |-> "failure", listener |-> k, exc |-> exc, seen |-> Seen(b) ])],
             k + 1, exc)

CircuitBreakerState_on_success(b) == notify_success(add_call_detail(b, TRUE), 1)

CircuitBreakerState_on_failure(b, exc) == notify_failure(b, 1, exc)

\* faulty variant: the failure is not added to the window
CircuitCloseState_on_failure_unrecorded(b, exc, t) ==
    LET b2 == update_last_failure_time(b, t)
        b3 == IF check_if_max_fails_reached(b2)
              THEN set_circuit_breaker_state(b2, OPEN_STATE)
              ELSE b2
    IN  CircuitBreakerState_on_failure(b3, exc)


\* faulty variant: the trip is evaluated before the failure time is stamped,
\* and a trip leaves the handler at once
CircuitCloseState_on_failure_unstamped(b, exc, t) ==
    LET b1 == add_call_detail(b, FALSE)
    IN  IF check_if_max_fails_reached(b1)
        THEN CircuitBreakerState_on_failure(
                 set_circuit_breaker_state(b1, OPEN_STATE), exc)
        ELSE CircuitBreakerState_on_failure(update_last_failure_time(b1, t), exc)

CircuitCloseState_on_failure(b, exc, t) ==
    LET b1 == add_call_detail(b, FALSE)
        b2 == update_last_failure_time(b1, t)
        b3 == IF check_if_max_fails_reached(b2)
              THEN set_circuit_breaker_state(b2, OPEN_STATE)
              ELSE b2
    IN  CircuitBreakerState_on_failure(b3, exc)

CircuitOpenState_on_failure(b, exc) == b

\* faulty variant: a rejected call restarts the cool-down
CircuitOpenState_before_call_restarting(b, t) ==
    IF b.last_failure_time = None
    THEN [cb |-> b, raised |-> "TypeError"]
    ELSE IF check_if_open_state_duration_elapsed(b, t)
    THEN [cb |-> set_circuit_breaker_state(b, HALF_OPEN_STATE), raised |-> "none"]
    ELSE [cb |-> update_last_failure_time(b, t), raised |-> "CircuitOpenException"]

\* faulty variant: an elapsed cool-down closes the breaker without a trial
CircuitOpenState_before_call_closing(b, t) ==
    IF b.last_failure_time = None
    THEN [cb |-> b, raised |-> "TypeError"]
    ELSE IF check_if_open_state_duration_elapsed(b, t)
    THEN [cb |-> set_circuit_breaker_state(b, CLOSED_STATE), raised |-> "none"]
    ELSE [cb |-> b, raised |-> "CircuitOpenException"]

\* before_call returns the breaker and the exception raised ("none" if none)
CircuitOpenState_before_call(b, t) ==
    IF b.last_failure_time = None
    THEN [cb |-> b, raised |-> "TypeError"]
    ELSE IF check_if_open_state_duration_elapsed(b, t)
    THEN [cb |-> set_circuit_breaker_state(b, HALF_OPEN_STATE), raised |-> "none"]
    ELSE [cb |-> b, raised |-> "CircuitOpenException"]

\* faulty variant: closing leaves the half-open counter as it is
CircuitHalfOpenState_on_success_keeping_counter(b) ==
    LET b1 == increment_half_open_state_success_calls(b)
    IN  IF check_half_open_call_success(b1)
        THEN reset_calls(set_circuit_breaker_state(b1, CLOSED_STATE))
        ELSE b1

CircuitHalfOpenState_on_success(b) ==
    LET b1 == increment_half_open_state_success_calls(b)
    IN  IF check_half_open_call_success(b1)
        THEN reset_half_open_state_calls_counter(
                 reset_calls(set_circuit_breaker_state(b1, CLOSED_STATE)))
        ELSE b1

\* faulty variant: the failure path leaves the half-open counter as it is
CircuitHalfOpenState_on_failure_keeping_counter(b, exc, t) ==
    update_last_failure_time(set_circuit_breaker_state(b, OPEN_STATE), t)


CircuitHalfOpenState_on_failure(b, exc, t) ==
    reset_half_open_state_calls_counter(
        update_last_failure_time(set_circuit_breaker_state(b, OPEN_STATE), t))

\* ---------------------------------------------------- dispatch on the state tag
get_circuit_state(b) == b.circuit_state

handle_before_call(b, t) ==
    IF get_circuit_state(b) = OPEN_STATE
    THEN CircuitOpenState_before_call(b, t)
    ELSE [cb |-> b, raised |-> "none"]

\* faulty variant: every success goes to the base handler, whatever the tag
handle_success_undispatched(b) == CircuitBreakerState_on_success(b)

handle_success(b) ==
    IF get_circuit_state(b) = HALF_OPEN_STATE
    THEN CircuitHalfOpenState_on_success(b)
    ELSE CircuitBreakerState_on_success(b)

handle_failure(b, exc, t) ==
    CASE get_circuit_state(b) = CLOSED_STATE -> CircuitCloseState_on_failure(b, exc, t)
      [] get_circuit_state(b) = OPEN_STATE -> CircuitOpenState_on_failure(b, exc)
      [] get_circuit_state(b) = HALF_OPEN_STATE -> CircuitHalfOpenState_on_failure(b, exc, t)

\* ------------------------------------------------------------------ wrapper
\* A caller's record: result is what the wrapper gave the caller ("returned"
\* or the exception raised), func what the decorated function did
\* ("returned", "raised", "none" if it was not called), slow whether func
\* took at least the configured slow-call threshold.
Idle(result, start_state, dispatch, handler) ==
    [ pc |-> "idle", start_time |-> None, start_state |-> start_state,
      result |-> result, dispatch |-> dispatch, handler |-> handler,
      func |-> "none", slow |-> FALSE ]

\* the breaker as a wrapper step finds it: nothing constructed yet
Entering(b) ==
    [b EXCEPT !.call_details_created = 0, !.events = <<>>, !.raised = "none"]

\* the count of records since (re-)closing after a step from breaker b to b2
Recorded(b, b2) ==
    IF b.circuit_state = HALF_OPEN_STATE /\ b2.circuit_state = CLOSED_STATE
    THEN 0
    ELSE LET n == recorded_since_closed + b2.call_details_created
         IN  IF n > b2.count_based_window_size THEN b2.count_based_window_size ELSE n

\* wrapper, line 178: before_call lets the call through; start_time is taken
wrapper_admitted(c) ==
    /\ calls[c].pc = "idle"
    /\ LET r == handle_before_call(Entering(cb), now)
       IN  /\ r.raised = "none"
           /\ cb' = r.cb
           /\ half_open_successes' =
                  IF cb.circuit_state # HALF_OPEN_STATE
                     /\ r.cb.circuit_state = HALF_OPEN_STATE
                  THEN 0 ELSE half_open_successes
    /\ calls' = [calls EXCEPT ![c] =
                    [ pc |-> "running", start_time |-> now,
                      start_state |-> get_circuit_state(cb),
                      result |-> "none", dispatch |-> "none", handler |-> "none",
                      func |-> "none", slow |-> FALSE ]]
    /\ UNCHANGED <<now, recorded_since_closed, i>>

\* wrapper, line 178: before_call raises, outside the try block
wrapper_rejected(c) ==
    /\ calls[c].pc = "idle"
    /\ LET r == handle_before_call(Entering(cb), now)
       IN  /\ r.raised # "none"
           /\ cb' = r.cb
           /\ calls' = [calls EXCEPT ![c] =
                           Idle(r.raised, get_circuit_state(cb), "none", "none")]
    /\ UNCHANGED <<now, half_open_successes, recorded_since_closed, i>>

\* wrapper, lines 185-187: the except clause.  handle_failure(cbe) runs, then
\* the bare raise gives cbe to the caller; an exception raised inside
\* handle_failure leaves the clause instead and reaches the caller.
except_clause(b, cbe, t) ==
    LET b1 == handle_failure(b, cbe, t)
    IN  [ cb |-> b1, result |-> IF b1.raised # "none" THEN b1.raised ELSE cbe ]

\* wrapper, lines 181-184 and 185-187: func returns; the duration check either
\* raises into the except clause or lets handle_success run (every listener
\* modelled has a success method, so handle_success raises nothing)
wrapper_func_returns(c) ==
    /\ calls[c].pc = "running"
    /\ LET b == Entering(cb)
           handler == get_circuit_state(b)
           slow == check_if_execution_time_breached(b, calls[c].start_time, now)
       IN  IF slow
           THEN LET r == except_clause(b, "CircuitExecutionTimeBreachedException", now)
                IN  /\ cb' = r.cb
                    /\ calls' = [calls EXCEPT ![c] =
                                    [Idle(r.result, calls[c].start_state,
                                          "on_failure", handler)
                                         EXCEPT !.func = "returned", !.slow = slow]]
                    /\ UNCHANGED half_open_successes
           ELSE /\ cb' = handle_success(b)
                /\ calls' = [calls EXCEPT ![c] =
                                [Idle("returned", calls[c].start_state,
                                      "on_success", handler)
                                     EXCEPT !.func = "returned", !.slow = slow]]
                /\ half_open_successes' =
                       IF handler = HALF_OPEN_STATE
                       THEN half_open_successes + 1 ELSE half_open_successes
    /\ recorded_since_closed' = Recorded(cb, cb')
    /\ UNCHANGED <<now, i>>

\* faulty variant: the duration check also runs when func raised, and a
\* breached threshold replaces the work's error
wrapper_func_raises_checking_duration(c) ==
    /\ calls[c].pc = "running"
    /\ LET b == Entering(cb)
           slow == check_if_execution_time_breached(b, calls[c].start_time, now)
           cbe == IF slow THEN "CircuitExecutionTimeBreachedException"
                  ELSE "WorkError"
           r == except_clause(b, cbe, now)
       IN  /\ cb' = r.cb
           /\ calls' = [calls EXCEPT ![c] =
                           [Idle(r.result, calls[c].start_state,
                                 "on_failure", get_circuit_state(b))
                                EXCEPT !.func = "raised", !.slow = slow]]
    /\ recorded_since_closed' = Recorded(cb, cb')
    /\ UNCHANGED <<now, half_open_successes, i>>

\* wrapper, lines 181 and 185-187: func raises; handle_failure, then re-raise
wrapper_func_raises(c) ==
    /\ calls[c].pc = "running"
    /\ LET b == Entering(cb)
           slow == check_if_execution_time_breached(b, calls[c].start_time, now)
           r == except_clause(b, "WorkError", now)
       IN  /\ cb' = r.cb
           /\ calls' = [calls EXCEPT ![c] =
                           [Idle(r.result, calls[c].start_state,
                                 "on_failure", get_circuit_state(b))
                                EXCEPT !.func = "raised", !.slow = slow]]
    /\ recorded_since_closed' = Recorded(cb, cb')
    /\ UNCHANGED <<now, half_open_successes, i>>

\* the wall clock advances by one second
Tick ==
    /\ now % SecondsPerDay < MaxSeconds
    /\ now' = now + 1
    /\ UNCHANGED <<cb, calls, half_open_successes, recorded_since_closed, i>>

\* the wall clock advances by a whole day
TickDay ==
    /\ now \div SecondsPerDay < MaxDays
    /\ now' = now + SecondsPerDay
    /\ UNCHANGED <<cb, calls, half_open_successes, recorded_since_closed, i>>

\* ------------------------------------------------------------ specifications
Configs ==
    { NewCircuitBreaker(w, r, s, t, d, <<>>) :
        w \in 1 .. MaxWindow, r \in Rates, s \in {None} \cup (0 .. MaxSlow),
        t \in 1 .. MaxTrials, d \in 1 .. MaxCooldown }

Init ==
    /\ cb \in Configs
    /\ now = 0
    /\ calls = [c \in Callers |-> Idle("none", "none", "none", "none")]
    /\ half_open_successes = 0
    /\ recorded_since_closed = 0
    /\ i = 0

\* calls made one at a time: a single caller
Next ==
    \/ wrapper_admitted(1)
    \/ wrapper_rejected(1)
    \/ wrapper_func_returns(1)
    \/ wrapper_func_raises(1)
    \/ Tick
    \/ TickDay

Spec == Init /\ [][Next]_vars

\* several threads inside the wrapper at once
NextConc ==
    \/ \E c \in Callers : wrapper_admitted(c)
    \/ \E c \in Callers : wrapper_rejected(c)
    \/ \E c \in Callers : wrapper_func_returns(c)
    \/ \E c \in Callers : wrapper_func_raises(c)
    \/ Tick
    \/ TickDay

SpecConc == Init /\ [][NextConc]_vars

\* calls made one at a time on a breaker constructed with listeners
ListenerLists ==
    { <<CircuitBreakerListener>>, <<FailureListener>>,
      <<FailureListener, CircuitBreakerListener>> }

\* the listener calls do not depend on the duration check: no slow-call
\* threshold here
ListenerConfigs ==
    { NewCircuitBreaker(w, r, None, t, d, l) :
        w \in 1 .. MaxWindow, r \in Rates,
        t \in 1 .. MaxTrials, d \in 1 .. MaxCooldown, l \in ListenerLists }

InitListeners ==
    /\ cb \in ListenerConfigs
    /\ now = 0
    /\ calls = [c \in Callers |-> Idle("none", "none", "none", "none")]
    /\ half_open_successes = 0
    /\ recorded_since_closed = 0
    /\ i = 0

SpecListeners == InitListeners /\ [][Next]_vars

\* ----------------------------------------------------- recovery after a trip
\* Time that never stops.  The breaker reads the clock only through
\* (utcnow() - last_failure_time).seconds, which depends on the two times
\* modulo a day, so here the clock is kept modulo a day: it ticks second by
\* second up to MaxSeconds and the rest of the day then passes in one step.
\* No slow-call threshold: start_time is not read.
LiveTick ==
    /\ now' = IF now < MaxSeconds THEN now + 1 ELSE 0
    /\ UNCHANGED <<cb, calls, half_open_successes, recorded_since_closed, i>>

\* cool-downs of a few seconds and of a whole day
LiveConfigs ==
    { NewCircuitBreaker(w, r, None, t, d, <<>>) :
        w \in 1 .. MaxWindow, r \in Rates, t \in 1 .. MaxTrials,
        d \in (1 .. MaxCooldown) \cup {SecondsPerDay} }

LiveInit ==
    /\ cb \in LiveConfigs
    /\ now = 0
    /\ calls = [c \in Callers |-> Idle("none", "none", "none", "none")]
    /\ half_open_successes = 0
    /\ recorded_since_closed = 0
    /\ i = 0

\* calls one at a time; the work fails only while the breaker is CLOSED, so
\* every call admitted once the breaker has tripped succeeds
LiveNext ==
    \/ wrapper_admitted(1)
    \/ wrapper_rejected(1)
    \/ wrapper_func_returns(1)
    \/ cb.circuit_state = CLOSED_STATE /\ wrapper_func_raises(1)
    \/ LiveTick

\* Time keeps advancing, a call that has started returns, and calls keep
\* being attempted at every time of the day: an attempt that would be let
\* through again and again is eventually made.
SpecLive ==
    /\ LiveInit /\ [][LiveNext]_vars
    /\ WF_vars(LiveTick)
    /\ WF_vars(wrapper_func_returns(1))
    /\ SF_vars(wrapper_admitted(1))

\* ------------------------------------------------------------ demo driver
\* The decorated function check and the loop that calls it once per
\* iteration, sleeping between iterations.  The breaker is configured as on
\* line 279 (window 10, failure rate 0.5, defaults otherwise: cool-down 10 s,
\* one half-open trial); the error flags of the first ten iterations are
\* those of the specified scenario F,F,F,F,F,S,S,S,S,S, later ones are free.
ScenarioErrors == <<TRUE, TRUE, TRUE, TRUE, TRUE, FALSE, FALSE, FALSE, FALSE, FALSE>>

SleepSeconds == 2

driver_error(k) ==
    IF k < Len(ScenarioErrors) THEN {ScenarioErrors[k + 1]} ELSE BOOLEAN

driver_calls == i < ScenarioIterations /\ calls[1].pc = "idle" /\ calls[1].result = "none"

\* the call of this iteration has returned or raised: next iteration
driver_next ==
    /\ calls[1].pc = "idle" /\ calls[1].result # "none"
    /\ i' = i + 1
    /\ calls' = [calls EXCEPT ![1] = Idle("none", "none", "none", "none")]
    /\ UNCHANGED <<cb, now, half_open_successes, recorded_since_closed>>

\* time.sleep between two iterations
driver_sleep ==
    /\ calls[1].pc = "idle" /\ calls[1].result = "none"
    /\ now + SleepSeconds <= ScenarioMaxTime
    /\ now' = now + SleepSeconds
    /\ UNCHANGED <<cb, calls, half_open_successes, recorded_since_closed, i>>

ScenarioInit ==
    /\ cb = NewCircuitBreaker(10, <<1, 2>>, None, None, None, <<>>)
    /\ now = 0
    /\ calls = [c \in Callers |-> Idle("none", "none", "none", "none")]
    /\ half_open_successes = 0
    /\ recorded_since_closed = 0
    /\ i = 0

ScenarioNext ==
    \/ driver_calls /\ wrapper_admitted(1)
    \/ driver_calls /\ wrapper_rejected(1)
    \/ FALSE \in driver_error(i) /\ wrapper_func_returns(1)
    \/ TRUE \in driver_error(i) /\ wrapper_func_raises(1)
    \/ driver_next
    \/ driver_sleep

SpecScenario == ScenarioInit /\ [][ScenarioNext]_vars

\* =================================================================== claims
\* What a step did to caller c, read off its wrapper position.
Completes(c) == calls[c].pc = "running" /\ calls'[c].pc = "idle"
Attempts(c) == calls[c].pc = "idle" /\ calls'[c] # calls[c]
Admitted(c) == Attempts(c) /\ calls'[c].pc = "running"
Rejected(c) == Attempts(c) /\ calls'[c].pc = "idle"

\* The window's failures, counted without the code's loop.
WindowFailures(b) ==
    Cardinality({k \in 1 .. Len(b.total_calls) : ~b.total_calls[k].status})

\* The window holds W records and their failed fraction is >= R.
WindowFailing(b) ==
    /\ Len(b.total_calls) = b.count_based_window_size
    /\ WindowFailures(b) * b.failure_rate[2] >= b.failure_rate[1] * Len(b.total_calls)

\* The true time since the last recorded failure has reached the cool-down.
CooldownElapsed(b, t) == t - b.last_failure_time >= b.open_state_duration

LastN(seq, n) ==
    IF Len(seq) <= n THEN seq ELSE SubSeq(seq, Len(seq) - n + 1, Len(seq))

\* C1: a CLOSED breaker trips to OPEN at the moment an outcome is recorded if
\* and only if the window then holds W records with a failed fraction >= R,
\* whether the recorded outcome is a failure or a success.
C1_TripIffWindowFailing ==
    [][\A c \in Callers :
          (Completes(c) /\ cb.circuit_state = CLOSED_STATE)
          => (cb'.circuit_state = OPEN_STATE <=> WindowFailing(cb'))]_vars

\* C2: while OPEN, a call attempted before the cool-down has elapsed since the
\* last recorded failure is rejected with CircuitOpenException and the state
\* stays OPEN; a call attempted once it has elapsed (by any amount, a day or
\* more included) is admitted and the state becomes HALF_OPEN.
C2_CooldownGate ==
    [][\A c \in Callers :
          (Attempts(c) /\ cb.circuit_state = OPEN_STATE)
          => IF CooldownElapsed(cb, now)
             THEN Admitted(c) /\ cb'.circuit_state = HALF_OPEN_STATE
             ELSE /\ Rejected(c)
                  /\ calls'[c].result = "CircuitOpenException"
                  /\ cb'.circuit_state = OPEN_STATE]_vars

\* C3: from HALF_OPEN with trial threshold T, the breaker becomes CLOSED
\* exactly when the T-th success since entering HALF_OPEN completes, with an
\* empty window at that moment; a failed call while HALF_OPEN moves it to OPEN
\* at once, whatever number of successes came before.
C3_HalfOpenTrials ==
    [][/\ (cb.circuit_state = HALF_OPEN_STATE /\ cb'.circuit_state = CLOSED_STATE)
          => /\ half_open_successes' = cb.half_open_state_calls_threshold
             /\ cb'.total_calls = <<>>
             /\ \E c \in Callers : Completes(c) /\ calls'[c].result = "returned"
       /\ \A c \in Callers :
             (Completes(c) /\ cb.circuit_state = HALF_OPEN_STATE)
             => IF calls'[c].result = "returned"
                THEN /\ half_open_successes' = half_open_successes + 1
                     /\ cb'.circuit_state =
                            IF half_open_successes' = cb.half_open_state_calls_threshold
                            THEN CLOSED_STATE ELSE HALF_OPEN_STATE
                ELSE cb'.circuit_state = OPEN_STATE]_vars

\* C3 witness: a breaker with T >= 2 just closed by the T-th half-open success.
C3_Witness ==
    /\ cb.half_open_state_calls_threshold >= 2
    /\ cb.circuit_state = CLOSED_STATE
    /\ cb.total_calls = <<>>
    /\ half_open_successes = cb.half_open_state_calls_threshold
    /\ calls[1].pc = "idle" /\ calls[1].result = "returned"
    /\ calls[1].handler = HALF_OPEN_STATE

\* C4: a call attempted while OPEN before the cool-down has elapsed raises
\* CircuitOpenException, does not run the work, and leaves the window, the
\* half-open counter, the last-failure time and the state tag unchanged.
C4_RejectionFrame ==
    [][\A c \in Callers :
          (Attempts(c) /\ cb.circuit_state = OPEN_STATE /\ ~CooldownElapsed(cb, now))
          => /\ calls'[c].pc = "idle"
             /\ calls'[c].result = "CircuitOpenException"
             /\ calls'[c].dispatch = "none"
             /\ cb'.total_calls = cb.total_calls
             /\ cb'.call_details_created = 0
             /\ cb'.half_open_state_total_calls = cb.half_open_state_total_calls
             /\ cb'.last_failure_time = cb.last_failure_time
             /\ cb'.circuit_state = cb.circuit_state]_vars

\* C4 witness: a call was rejected some time after the trip, cool-down running.
C4_Witness ==
    /\ cb.circuit_state = OPEN_STATE
    /\ calls[1].pc = "idle" /\ calls[1].result = "CircuitOpenException"
    /\ now > cb.last_failure_time
    /\ ~CooldownElapsed(cb, now)

\* C5: the window never holds more than count_based_window_size records, and
\* a record added to a full window evicts the oldest one: after every append
\* the window is the previous window plus the new record, cut to its last W.
C5_WindowBound ==
    [][/\ Len(cb'.total_calls) <= cb.count_based_window_size
       /\ cb'.call_details_created <= 1
       /\ (cb' # cb /\ cb'.call_details_created = 1)
          => \E status \in BOOLEAN :
                cb'.total_calls =
                    LastN(Append(cb.total_calls, CallDetail(status)),
                          cb.count_based_window_size)]_vars

\* C5 witness: a never-tripped breaker whose full window of two or more
\* records holds successes only although a failure was recorded: the failure
\* has been evicted by the successes appended after it.
C5_Witness ==
    /\ cb.circuit_state = CLOSED_STATE /\ half_open_successes = 0
    /\ cb.count_based_window_size >= 2
    /\ Len(cb.total_calls) = cb.count_based_window_size
    /\ WindowFailures(cb) = 0
    /\ cb.last_failure_time # None
    /\ cb.call_details_created = 1

\* C6: the breaker never goes CLOSED -> OPEN on a window of fewer than W
\* records; a re-closed breaker needs W newly recorded outcomes to trip again.
C6_NoTripOnPartialWindow ==
    [][(cb.circuit_state = CLOSED_STATE /\ cb'.circuit_state = OPEN_STATE)
       => /\ Len(cb'.total_calls) = cb.count_based_window_size
          /\ recorded_since_closed' = cb.count_based_window_size]_vars

\* C6 witness: a breaker that was re-closed from HALF_OPEN and has tripped
\* again on a window of two or more records.
C6_Witness ==
    /\ cb.circuit_state = OPEN_STATE
    /\ half_open_successes = cb.half_open_state_calls_threshold
    /\ cb.count_based_window_size >= 2
    /\ recorded_since_closed = cb.count_based_window_size
    /\ calls[1].handler = CLOSED_STATE /\ calls[1].dispatch = "on_failure"

\* The outcomes the scenario's driver has fed to the breaker so far.
ScenarioOutcomesFed ==
    i + (IF calls[1].pc = "idle" /\ calls[1].dispatch # "none" THEN 1 ELSE 0)

\* C7: with window 10, rate 0.5, cool-down 10 s and one trial, the outcomes
\* F,F,F,F,F,S,S,S,S,S leave the breaker CLOSED after each of the first nine
\* and OPEN when the tenth is recorded; a call right after is rejected; the
\* first call a cool-down later is admitted as a probe in HALF_OPEN; a
\* successful probe gives CLOSED with an empty window, a failed one gives OPEN
\* and rejections for a full cool-down from the probe's failure.
C7_Scenario ==
    /\ ScenarioOutcomesFed <= 9 => cb.circuit_state = CLOSED_STATE
    /\ (ScenarioOutcomesFed = 10 /\ i = 9) => cb.circuit_state = OPEN_STATE
    /\ (i = 10 /\ now = cb.last_failure_time /\ calls[1].pc = "idle"
           /\ calls[1].result # "none")
       => calls[1].result = "CircuitOpenException"
    /\ calls[1].result = "CircuitOpenException"
       => cb.circuit_state = OPEN_STATE /\ ~CooldownElapsed(cb, now)
    /\ (calls[1].pc = "running" /\ i >= 10)
       => /\ calls[1].start_state = OPEN_STATE
          /\ cb.circuit_state = HALF_OPEN_STATE
          /\ CooldownElapsed(cb, now)
    /\ (calls[1].handler = HALF_OPEN_STATE /\ calls[1].result = "returned")
       => cb.circuit_state = CLOSED_STATE /\ cb.total_calls = <<>>
    /\ (calls[1].handler = HALF_OPEN_STATE /\ calls[1].result = "WorkError")
       => cb.circuit_state = OPEN_STATE /\ cb.last_failure_time = now

\* C8: every admitted call that completes, in CLOSED or as a probe in
\* HALF_OPEN, successful or failed, appends exactly one record; a rejected
\* call appends none.
C8_OneRecordPerCompletedCall ==
    [][\A c \in Callers :
          /\ Completes(c) => cb'.call_details_created = 1
          /\ Rejected(c) => cb'.call_details_created = 0]_vars

\* C8 as amended: every admitted call that completes while the breaker is
\* CLOSED appends exactly one record, with the call's outcome as its status;
\* a probe that completes while HALF_OPEN appends none, and neither does a
\* rejected call.
C8_OneRecordPerClosedCall ==
    [][\A c \in Callers :
          /\ (Completes(c) /\ cb.circuit_state = CLOSED_STATE)
             => /\ cb'.call_details_created = 1
                /\ cb'.total_calls =
                      LastN(Append(cb.total_calls,
                                   CallDetail(calls'[c].result = "returned")),
                            cb.count_based_window_size)
          /\ (Completes(c) /\ cb.circuit_state = HALF_OPEN_STATE)
             => /\ cb'.call_details_created = 0
                /\ cb'.total_calls \in {cb.total_calls, <<>>}
          /\ Rejected(c)
             => /\ cb'.call_details_created = 0
                /\ cb'.total_calls = cb.total_calls]_vars

\* C8 witness: the first of two trial calls has succeeded in HALF_OPEN and
\* the window still holds the records of the trip, nothing added.
C8_Witness ==
    /\ cb.circuit_state = HALF_OPEN_STATE
    /\ calls[1].pc = "idle" /\ calls[1].result = "returned"
    /\ calls[1].handler = HALF_OPEN_STATE
    /\ cb.call_details_created = 0
    /\ WindowFailing(cb)

\* Calls in flight that were let through by the open or the half-open handler.
ProbesInFlight(cs) ==
    Cardinality({c \in Callers :
        cs[c].pc = "running" /\ cs[c].start_state # CLOSED_STATE})

\* C9: with concurrent callers, at most half_open_state_calls_threshold calls
\* are admitted as probes before the trial batch is decided; a caller that
\* arrives in HALF_OPEN beyond that is rejected with CircuitOpenException.
C9_HalfOpenAdmissionCap ==
    [][/\ cb'.circuit_state = HALF_OPEN_STATE
          => cb'.half_open_state_total_calls + ProbesInFlight(calls')
                <= cb.half_open_state_calls_threshold
       /\ \A c \in Callers :
             (Attempts(c) /\ cb.circuit_state = HALF_OPEN_STATE
                /\ cb.half_open_state_total_calls + ProbesInFlight(calls)
                      >= cb.half_open_state_calls_threshold)
             => Rejected(c) /\ calls'[c].result = "CircuitOpenException"]_vars

\* C10: an admitted call whose work returns after a duration >= the slow-call
\* threshold goes to the on-failure path and the caller gets
\* CircuitExecutionTimeBreachedException instead of the result; a call below
\* the threshold, or with no threshold configured, is not classified as slow.
C10_SlowCall ==
    [][\A c \in Callers :
          (Completes(c) /\ calls'[c].result # "WorkError")
          => IF /\ cb.slow_call_duration # None
                /\ now - calls[c].start_time >= cb.slow_call_duration
             THEN /\ calls'[c].result = "CircuitExecutionTimeBreachedException"
                  /\ calls'[c].dispatch = "on_failure"
                  /\ cb.circuit_state = CLOSED_STATE
                     => /\ cb'.total_calls # <<>>
                        /\ ~cb'.total_calls[Len(cb'.total_calls)].status
                        /\ cb'.last_failure_time = now
                  /\ cb.circuit_state = HALF_OPEN_STATE
                     => cb'.circuit_state = OPEN_STATE
             ELSE /\ calls'[c].result = "returned"
                  /\ calls'[c].dispatch = "on_success"]_vars

\* C10 witness: with a threshold of a second or more, a call that returned
\* was recorded as a failure and raised the breach exception.
C10_Witness ==
    /\ cb.slow_call_duration # None /\ cb.slow_call_duration >= 1
    /\ calls[1].pc = "idle"
    /\ calls[1].result = "CircuitExecutionTimeBreachedException"
    /\ calls[1].dispatch = "on_failure"
    /\ calls[1].handler = CLOSED_STATE
    /\ cb.total_calls # <<>>
    /\ ~cb.total_calls[Len(cb.total_calls)].status

\* What dispatching a failure at time now does to the breaker, by the state it
\* is dispatched in: CLOSED appends a failure record, stamps the failure time
\* and trips on a failing window; HALF_OPEN goes back to OPEN, stamps the
\* failure time and zeroes the trial counter; OPEN changes nothing.
FailureBookkeeping ==
    /\ cb.circuit_state = CLOSED_STATE
       => /\ cb'.total_calls = LastN(Append(cb.total_calls, CallDetail(FALSE)),
                                     cb.count_based_window_size)
          /\ cb'.last_failure_time = now
          /\ cb'.circuit_state =
                IF WindowFailing(cb') THEN OPEN_STATE ELSE CLOSED_STATE
    /\ cb.circuit_state = HALF_OPEN_STATE
       => /\ cb'.circuit_state = OPEN_STATE
          /\ cb'.last_failure_time = now
          /\ cb'.half_open_state_total_calls = 0
          /\ cb'.total_calls = cb.total_calls
    /\ cb.circuit_state = OPEN_STATE
       => /\ cb'.circuit_state = OPEN_STATE
          /\ cb'.last_failure_time = cb.last_failure_time
          /\ cb'.half_open_state_total_calls = cb.half_open_state_total_calls
          /\ cb'.total_calls = cb.total_calls

\* C11: when the work of an admitted call raises an error E, the failure
\* bookkeeping is done (on-failure dispatched, any transition applied) and
\* the caller then receives E itself: never another error, never a result.
C11_WorkErrorReachesCaller ==
    [][\A c \in Callers :
          (Completes(c) /\ calls'[c].func = "raised")
          => /\ calls'[c].dispatch = "on_failure"
             /\ FailureBookkeeping
             /\ calls'[c].result = "WorkError"]_vars

\* C12: whenever the breaker is CLOSED or OPEN the half-open success counter
\* is zero: every step that leaves HALF_OPEN resets it, and no step raises it
\* unless the breaker is HALF_OPEN when the outcome is dispatched.
C12_CounterZeroOutsideHalfOpen ==
    [][/\ cb.circuit_state # HALF_OPEN_STATE => cb.half_open_state_total_calls = 0
       /\ cb'.circuit_state # HALF_OPEN_STATE => cb'.half_open_state_total_calls = 0
       /\ cb'.half_open_state_total_calls > cb.half_open_state_total_calls
          => /\ cb.circuit_state = HALF_OPEN_STATE
             /\ cb'.half_open_state_total_calls = cb.half_open_state_total_calls + 1]_vars

\* C12 witness: a trial call failed after an earlier trial had succeeded; the
\* breaker is OPEN again and the counter is back at zero.
C12_Witness ==
    /\ cb.circuit_state = OPEN_STATE
    /\ cb.half_open_state_total_calls = 0
    /\ half_open_successes >= 1
    /\ calls[1].pc = "idle" /\ calls[1].dispatch = "on_failure"
    /\ calls[1].handler = HALF_OPEN_STATE

\* C13: the window is emptied by the step that takes the breaker from
\* HALF_OPEN to CLOSED and by no other step; any other step leaves the window
\* as it is or appends one record, dropping the oldest one when the window
\* was full.
C13_WindowEmptiedOnReclose ==
    [][IF cb.circuit_state = HALF_OPEN_STATE /\ cb'.circuit_state = CLOSED_STATE
       THEN cb'.total_calls = <<>>
       ELSE \/ cb'.total_calls = cb.total_calls
            \/ \E status \in BOOLEAN :
                  /\ cb'.total_calls = Append(cb.total_calls, CallDetail(status))
                  /\ Len(cb.total_calls) < cb.count_based_window_size
            \/ \E status \in BOOLEAN :
                  /\ cb'.total_calls =
                        Append(Tail(cb.total_calls), CallDetail(status))
                  /\ Len(cb.total_calls) = cb.count_based_window_size]_vars

\* C13 witness: a breaker whose full window tripped it has been closed again
\* by a single trial call, and the window is empty.
C13_Witness ==
    /\ cb.half_open_state_calls_threshold = 1
    /\ cb.count_based_window_size = MaxWindow
    /\ cb.circuit_state = CLOSED_STATE
    /\ cb.total_calls = <<>>
    /\ cb.last_failure_time # None
    /\ calls[1].pc = "idle" /\ calls[1].dispatch = "on_success"
    /\ calls[1].handler = HALF_OPEN_STATE

\* The call of caller c has run for at least the configured slow-call threshold.
SlowCall(c) ==
    /\ cb.slow_call_duration # None
    /\ now - calls[c].start_time >= cb.slow_call_duration

\* C14 as stated: with a slow-call threshold configured, every admitted call
\* that ran for at least the threshold is a failure whose cause, for the
\* caller and for on-failure, is the breach exception, whether the work
\* returned or raised an error of its own.
C14_SlowCallWhateverOutcome ==
    [][\A c \in Callers :
          (Completes(c) /\ SlowCall(c))
          => /\ calls'[c].dispatch = "on_failure"
             /\ calls'[c].result = "CircuitExecutionTimeBreachedException"]_vars

\* C14 as amended: every admitted call that ran for at least the threshold is
\* a failure; its cause is the breach exception when the work returned, and
\* the work's own error when the work raised, however long that took.  The
\* caller receives that cause (unless a listener call raised on the way).
C14_SlowCallCause ==
    [][\A c \in Callers :
          (Completes(c) /\ SlowCall(c))
          => /\ calls'[c].dispatch = "on_failure"
             /\ FailureBookkeeping
             /\ \A k \in 1 .. Len(cb'.events) :
                   cb'.events[k].kind = "failure"
                   => cb'.events[k].exc =
                         IF calls'[c].func = "returned"
                         THEN "CircuitExecutionTimeBreachedException"
                         ELSE "WorkError"
             /\ cb'.raised = "none"
                => calls'[c].result =
                      IF calls'[c].func = "returned"
                      THEN "CircuitExecutionTimeBreachedException"
                      ELSE "WorkError"]_vars

\* C14 witness: with a threshold of one second, a call whose work raised
\* after a second or more has ended with the work's error.
C14_Witness ==
    /\ cb.slow_call_duration = 1
    /\ calls[1].pc = "idle" /\ calls[1].func = "raised" /\ calls[1].slow
    /\ calls[1].result = "WorkError" /\ calls[1].dispatch = "on_failure"
    /\ calls[1].handler = CLOSED_STATE
    /\ cb.last_failure_time = now
    /\ cb.total_calls # <<>>

\* What dispatching a success does to the breaker, by the state it is
\* dispatched in: HALF_OPEN counts the trial and on the last one closes with
\* an empty window and a zero counter; CLOSED and OPEN have the base handler,
\* which appends a success record.
SuccessBookkeeping ==
    /\ cb.circuit_state = HALF_OPEN_STATE
       => /\ cb'.last_failure_time = cb.last_failure_time
          /\ IF cb.half_open_state_total_calls + 1 >= cb.half_open_state_calls_threshold
             THEN /\ cb'.circuit_state = CLOSED_STATE
                  /\ cb'.total_calls = <<>>
                  /\ cb'.half_open_state_total_calls = 0
             ELSE /\ cb'.circuit_state = HALF_OPEN_STATE
                  /\ cb'.total_calls = cb.total_calls
                  /\ cb'.half_open_state_total_calls =
                        cb.half_open_state_total_calls + 1
    /\ cb.circuit_state # HALF_OPEN_STATE
       => /\ cb'.total_calls = LastN(Append(cb.total_calls, CallDetail(TRUE)),
                                     cb.count_based_window_size)
          /\ cb'.circuit_state = cb.circuit_state
          /\ cb'.last_failure_time = cb.last_failure_time
          /\ cb'.half_open_state_total_calls = cb.half_open_state_total_calls

C16_OpenHandlerMutatesNothing ==
    [][\A c \in Callers :
          (Completes(c) /\ cb.circuit_state = OPEN_STATE)
          => /\ cb'.total_calls = cb.total_calls
             /\ cb'.half_open_state_total_calls = cb.half_open_state_total_calls
             /\ cb'.last_failure_time = cb.last_failure_time
             /\ cb'.circuit_state = cb.circuit_state]_vars

\* The positions in the listener calls of a step that are of the given kind.
EventsOfKind(events, kind) == {k \in 1 .. Len(events) : events[k].kind = kind}

\* C17: a step of the wrapper that changes the state tag calls state_change
\* on each registered listener exactly once, with the previous and the new
\* state and with the tag already holding the new state, and a step that
\* does not change it calls none; a failure dispatched in CLOSED appends the
\* record, stamps the failure time and evaluates the trip before any listener
\* is called, then notifies the state change (if it tripped) and last of all
\* the failure, which every listener gets.
C17_ListenerNotifications ==
    [][calls' # calls
       => LET listeners == 1 .. Len(cb.listeners)
              events == cb'.events
              changes == EventsOfKind(events, "state_change")
              failures == EventsOfKind(events, "failure")
          IN  /\ IF cb'.circuit_state # cb.circuit_state
                 THEN \A l \in listeners :
                         \E k \in changes :
                            /\ events[k].listener = l
                            /\ events[k].prev_state = cb.circuit_state
                            /\ events[k].curr_state = cb'.circuit_state
                            /\ events[k].seen.circuit_state = cb'.circuit_state
                            /\ \A k2 \in changes :
                                  events[k2].listener = l => k2 = k
                 ELSE changes = {}
              /\ \A c \in Callers :
                    (Completes(c) /\ calls'[c].dispatch = "on_failure"
                       /\ cb.circuit_state = CLOSED_STATE)
                    => /\ \A l \in listeners :
                             \E k \in failures :
                                /\ events[k].listener = l
                                /\ events[k].seen.total_calls =
                                      LastN(Append(cb.total_calls, CallDetail(FALSE)),
                                            cb.count_based_window_size)
                                /\ events[k].seen.last_failure_time = now
                                /\ events[k].seen.circuit_state =
                                      IF WindowFailing(cb') THEN OPEN_STATE
                                      ELSE CLOSED_STATE
                                /\ \A k2 \in changes : k2 < k
                       /\ listeners # {}
                          => events[Len(events)].kind = "failure"]_vars

\* The edges of the state machine.
Edges ==
    { <<CLOSED_STATE, OPEN_STATE>>, <<OPEN_STATE, HALF_OPEN_STATE>>,
      <<HALF_OPEN_STATE, CLOSED_STATE>>, <<HALF_OPEN_STATE, OPEN_STATE>> }

\* C18: the breaker starts CLOSED; with calls made one at a time a step
\* changes the state only along CLOSED -> OPEN, OPEN -> HALF_OPEN,
\* HALF_OPEN -> CLOSED and HALF_OPEN -> OPEN, and every state_change a
\* listener gets carries one of these edges, never a previous state equal to
\* the new one.
C18_TransitionGraph ==
    /\ cb.circuit_state = CLOSED_STATE
    /\ [][/\ cb'.circuit_state # cb.circuit_state
             => <<cb.circuit_state, cb'.circuit_state>> \in Edges
          /\ \A k \in EventsOfKind(cb'.events, "state_change") :
                /\ cb'.events[k].prev_state # cb'.events[k].curr_state
                /\ <<cb'.events[k].prev_state, cb'.events[k].curr_state>> \in Edges]_vars

\* C18 witness: a failed trial call took the breaker from HALF_OPEN back to
\* OPEN, and the listeners were told so.
C18_Witness ==
    /\ cb.circuit_state = OPEN_STATE
    /\ calls[1].pc = "idle" /\ calls[1].handler = HALF_OPEN_STATE
    /\ calls[1].dispatch = "on_failure"
    /\ cb.events # <<>>
    /\ \A k \in 1 .. Len(cb.events) :
          /\ cb.events[k].kind = "state_change"
          /\ cb.events[k].prev_state = HALF_OPEN_STATE
          /\ cb.events[k].curr_state = OPEN_STATE

\* C19: with calls made one at a time, whenever the breaker is OPEN or
\* HALF_OPEN its window is as the trip left it: exactly W records with a
\* failed fraction >= R, the newest one a failure, and the last-failure time
\* is set (so the cool-down check has a time to subtract).
C19_WindowFrozenWhileOpen ==
    cb.circuit_state \in {OPEN_STATE, HALF_OPEN_STATE}
    => /\ WindowFailing(cb)
       /\ ~cb.total_calls[Len(cb.total_calls)].status
       /\ cb.last_failure_time # None
       /\ cb.last_failure_time <= now

\* C19 witness: a window of two that tripped the breaker with one failure in
\* two is still there after a rejected call, a successful trial and a failed
\* trial have passed.
C19_Witness ==
    /\ cb.circuit_state = OPEN_STATE
    /\ cb.total_calls = <<CallDetail(TRUE), CallDetail(FALSE)>>
    /\ half_open_successes >= 1
    /\ calls[1].pc = "idle" /\ calls[1].result = "CircuitOpenException"
    /\ cb.last_failure_time < now

\* C20: a tripped breaker does not stay OPEN for ever: while time keeps
\* advancing, calls keep being attempted and every admitted call succeeds,
\* an OPEN breaker eventually becomes HALF_OPEN and a HALF_OPEN breaker
\* eventually becomes CLOSED, whatever the cool-down and the trial threshold.
C20_Recovers ==
    /\ (cb.circuit_state = OPEN_STATE) ~> (cb.circuit_state = HALF_OPEN_STATE)
    /\ (cb.circuit_state = HALF_OPEN_STATE) ~> (cb.circuit_state = CLOSED_STATE)

====
